---- MODULE Spec2Model ----
(***************************************************************************)
(* State machine of the editor shell in src/src/main.rs: the AppView       *)
(* fields, the pointer-event listeners that AppView::render and            *)
(* AppView::render_project_explorer install, and the dispatch of one       *)
(* pointer event through the listeners of the painted frame.               *)
(***************************************************************************)
EXTENDS Integers, Sequences, FiniteSets, TLC

VARIABLES
    open_menu,            \* AppView.open_menu: OpenMenu
    expanded_dirs,        \* AppView.expanded_dirs: HashSet<PathBuf>
    sidebar_width,        \* AppView.sidebar_width: f32
    is_dragging_sidebar,  \* AppView.is_dragging_sidebar: bool
    open_tabs,            \* AppView.open_tabs: Vec<PathBuf>
    active_tab_index,     \* AppView.active_tab_index: Option<usize>
    tab_contents,         \* AppView.tab_contents: HashMap<PathBuf, String>
    disk,                 \* the filesystem: result of fs::read_to_string per file
    frame,                \* what the listeners of the painted frame captured
    dirty,                \* cx.notify() was called and the window is not yet redrawn
    pending,              \* listeners still to run for the pointer event in dispatch
    hit,                  \* element under the pointer for the event in dispatch
    last,                 \* the listener that ran last, with the state it ran in
    opened,               \* per open tab, the text fs::read_to_string returned when it was opened
    panicked,             \* a listener panicked
    char_widths,          \* AppView.char_widths: HashMap<char, f32>
    fs,                   \* the filesystem: what read_dir and file_type fail on, which links exist
    collapsed_from        \* the expansion set and tree a directory was collapsed from

vars == << open_menu, expanded_dirs, sidebar_width, is_dragging_sidebar,
           open_tabs, active_tab_index, tab_contents, disk, frame, dirty,
           pending, hit, last, opened, panicked, char_widths, fs, collapsed_from >>

appvars == << open_menu, expanded_dirs, sidebar_width, is_dragging_sidebar,
              open_tabs, active_tab_index, tab_contents >>

----------------------------------------------------------------------------
(* Option<T> and Result<T, E> *)

None == << >>
Some(x) == << x >>
Err == << >>
Ok(x) == << x >>

----------------------------------------------------------------------------
(* The menu bar *)

menu_bar_labels ==
    << "File", "Edit", "Selection", "Find", "View", "Goto", "Tools",
       "Project", "Preferences", "Help" >>

MenuIds == { menu_bar_labels[i] : i \in 1..Len(menu_bar_labels) }

OpenMenuNone == "None"

OpenMenu == { OpenMenuNone } \cup MenuIds

----------------------------------------------------------------------------
(* The glyph-metrics table and the dropdown anchor *)

MENU_BUTTON_HORIZONTAL_PADDING_PX == 24

MENU_BUTTON_CORRECTION_PX == 1

DefaultGlyphWidth == 7

\* label.chars()
chars(label) ==
    CASE label = "File"        -> << "F", "i", "l", "e" >>
      [] label = "Edit"        -> << "E", "d", "i", "t" >>
      [] label = "Selection"   -> << "S", "e", "l", "e", "c", "t", "i", "o", "n" >>
      [] label = "Find"        -> << "F", "i", "n", "d" >>
      [] label = "View"        -> << "V", "i", "e", "w" >>
      [] label = "Goto"        -> << "G", "o", "t", "o" >>
      [] label = "Tools"       -> << "T", "o", "o", "l", "s" >>
      [] label = "Project"     -> << "P", "r", "o", "j", "e", "c", "t" >>
      [] label = "Preferences" -> << "P", "r", "e", "f", "e", "r", "e", "n", "c", "e", "s" >>
      [] label = "Help"        -> << "H", "e", "l", "p" >>

\* widths are whole pixels here; the glyph file gives f32 values
GlyphChars == { "F", "e", "i" }

GlyphWidths == { -30, 9 }

GlyphTables == UNION { [ D -> GlyphWidths ] : D \in SUBSET GlyphChars }

InitGlyphTable == [ c \in { "F", "i" } |-> 9 ]

\* self.char_widths.get(&c).unwrap_or(&7.0)
glyph_width(table, c) == IF c \in DOMAIN table THEN table[c] ELSE DefaultGlyphWidth

RECURSIVE sum_widths(_, _)
sum_widths(table, cs) ==
    IF cs = << >> THEN 0 ELSE glyph_width(table, Head(cs)) + sum_widths(table, Tail(cs))

btn_width_uncorrected(table, label) ==
    sum_widths(table, chars(label)) + MENU_BUTTON_HORIZONTAL_PADDING_PX

btn_width_padding_subtracted(table, label) ==
    sum_widths(table, chars(label)) - MENU_BUTTON_HORIZONTAL_PADDING_PX - MENU_BUTTON_CORRECTION_PX

btn_width(table, label) ==
    sum_widths(table, chars(label)) + MENU_BUTTON_HORIZONTAL_PADDING_PX - MENU_BUTTON_CORRECTION_PX

\* for (label, variant) in menu_bar_labels.iter() { if variant == &self.open_menu { break; } ... }
RECURSIVE dropdown_left_loop(_, _, _, _)
dropdown_left_loop(table, menu, i, acc) ==
    IF i > Len(menu_bar_labels) THEN acc
    ELSE IF menu_bar_labels[i] = menu THEN acc
    ELSE dropdown_left_loop(table, menu, i + 1, acc + btn_width(table, menu_bar_labels[i]))

dropdown_left(table, menu) == dropdown_left_loop(table, menu, 1, 0)

----------------------------------------------------------------------------
(* The filesystem below the working directory *)

current_dir == "/"

Dirs == { "/", "/d" }

Files == { "/a.txt", "/b.txt", "/d/c.txt" }

\* deepest directory level whose label is clicked
MaxDepth == 3

\* file names in ascending OsString order
Names == << "a.txt", "b.txt", "c.txt", "d", "up" >>

\* the entries of a directory; /d/up is a symbolic link to the working directory
EntryNames(dir) ==
    IF dir = "/" THEN { "a.txt", "b.txt", "d" }
    ELSE IF dir = "/d" THEN { "c.txt", "up" }
    ELSE {}

Links == [ p \in { "/d/up" } |-> "/" ]

\* what the filesystem does: whether the link exists, the directories that
\* cannot be read, the entries whose iteration fails, the entries whose type
\* lookup fails
FsStates ==
    [ link : BOOLEAN,
      unreadable : SUBSET { "/d" },
      bad_entries : SUBSET { "/b.txt" },
      no_type : SUBSET { "/d" } ]

PlainFs == [ link |-> FALSE, unreadable |-> {}, bad_entries |-> {}, no_type |-> {} ]

\* PathBuf::join
join(dir, name) == IF dir = "/" THEN dir \o name ELSE dir \o "/" \o name

\* the file a path names once symbolic links are followed
resolve(path) == IF path \in DOMAIN Links THEN Links[path] ELSE path

Placeholder == "Hello, Sublime-rust!"

Contents == { "X", Placeholder }

ReadResults == { Err } \cup { Ok(c) : c \in Contents }

PointerXs == { 30, 300, 900 }

read_dir_ignoring_errors(f, dir) ==
    Ok({ n \in EntryNames(dir) : join(dir, n) \in DOMAIN Links => f.link })

\* std::fs::read_dir(&path): the entries, or an error
read_dir(f, dir) ==
    IF dir \in f.unreadable THEN Err
    ELSE Ok({ n \in EntryNames(dir) : join(dir, n) \in DOMAIN Links => f.link })

\* entries.filter_map(|entry| entry.ok())
entry_ok(f, entry) == entry \notin f.bad_entries

\* entry.file_type().map(|ft| ft.is_dir()).unwrap_or(false): the type of the
\* entry itself, a symbolic link is no directory
file_type_is_dir(f, entry) ==
    /\ entry \notin f.no_type
    /\ entry \notin DOMAIN Links
    /\ entry \in Dirs

\* entry_path.is_dir(): follows symbolic links
is_dir(path) == resolve(path) \in Dirs

NameRank(n) == CHOOSE i \in 1..Len(Names) : Names[i] = n

\* the comparator of sorted_entries.sort_by
entry_less(f, dir, a, b) ==
    LET a_is_dir == file_type_is_dir(f, join(dir, a))
        b_is_dir == file_type_is_dir(f, join(dir, b))
    IN  IF a_is_dir /\ ~b_is_dir THEN TRUE
        ELSE IF ~a_is_dir /\ b_is_dir THEN FALSE
        ELSE NameRank(a) < NameRank(b)

RECURSIVE sort_by(_, _, _)
sort_by(f, dir, names) ==
    IF names = {} THEN << >>
    ELSE LET first == CHOOSE a \in names :
                         \A b \in names \ { a } : entry_less(f, dir, a, b)
         IN  << first >> \o sort_by(f, dir, names \ { first })

sorted_entries(f, dir) ==
    sort_by(f, dir, { n \in read_dir(f, dir)[1] : entry_ok(f, join(dir, n)) })

read_to_string_or_default(path) == IF disk[path] = Err THEN Ok("") ELSE disk[path]

read_to_string(path) == disk[path]

----------------------------------------------------------------------------
(* Vec and HashMap operations *)

position_never(tabs, path) == None

position(tabs, path) ==
    IF \E i \in 1..Len(tabs) : tabs[i] = path
    THEN Some((CHOOSE i \in 1..Len(tabs) :
                  /\ tabs[i] = path
                  /\ \A j \in 1..(i - 1) : tabs[j] # path) - 1)
    ELSE None

vec_remove_pop(tabs, idx) == SubSeq(tabs, 1, Len(tabs) - 1)

vec_remove(tabs, idx) ==
    [ i \in 1..(Len(tabs) - 1) |-> IF i <= idx THEN tabs[i] ELSE tabs[i + 1] ]

map_insert_absent_only(map, key, value) == map

map_insert(map, key, value) ==
    [ k \in (DOMAIN map) \cup { key } |-> IF k = key THEN value ELSE map[k] ]

map_remove_nothing(map, key) == map

map_remove(map, key) ==
    [ k \in (DOMAIN map) \ { key } |-> map[k] ]

EmptyMap == [ k \in {} |-> "" ]

KeySet(map) == DOMAIN map

Elems(tabs) == { tabs[i] : i \in 1..Len(tabs) }

----------------------------------------------------------------------------
(* The bodies of the listeners *)

toggle_always_opens(menu, variant) == variant

\* menu button: _this.open_menu = if _this.open_menu == variant { None } else { variant }
toggle(menu, variant) == IF menu = variant THEN OpenMenuNone ELSE variant

reclamp_never(active, len) == active

\* close glyph: the active index after open_tabs.remove(idx)
reclamp(active, len) ==
    IF active # None /\ active[1] >= len
    THEN IF len = 0 THEN None ELSE Some(len - 1)
    ELSE active

\* tab: this.active_tab_index = Some(idx)
activate(active, idx) == Some(idx)

clamp_width_no_upper(x) == IF x < 50 THEN 50 ELSE x

clamp_width_no_lower(x) == IF x > 600 THEN 600 ELSE x

\* root on_mouse_move: the width while dragging
clamp_width(x) == IF x < 50 THEN 50 ELSE IF x > 600 THEN 600 ELSE x

----------------------------------------------------------------------------
(* The render pass *)

is_expanded_always(expanded, path) == TRUE

is_expanded_root_always(expanded, path) == path = current_dir \/ path \in expanded

\* self.expanded_dirs.contains(&path)
is_expanded(expanded, path) == path \in expanded

\* The rows of the tree from top to bottom.  path is the PathBuf the listeners
\* capture, dir the directory it names, depth its level below the root.
RECURSIVE render_project_explorer(_, _, _, _, _)
RECURSIVE render_children(_, _, _, _, _, _)
render_project_explorer(path, dir, depth, expanded, f) ==
    << [ kind |-> "dir", path |-> path, dir |-> dir, depth |-> depth,
         is_expanded |-> is_expanded(expanded, path) ] >>
    \o
    IF is_expanded(expanded, path) /\ read_dir(f, dir) # Err
    THEN render_children(path, dir, depth, expanded, f, sorted_entries(f, dir))
    ELSE << >>

\* for entry in sorted_entries
render_children(path, dir, depth, expanded, f, entries) ==
    IF entries = << >> THEN << >>
    ELSE LET entry == Head(entries) IN
         ( IF is_dir(join(dir, entry))
           THEN render_project_explorer(join(path, entry), resolve(join(dir, entry)),
                                        depth + 1, expanded, f)
           ELSE << [ kind |-> "file", path |-> join(path, entry), dir |-> "",
                     depth |-> depth + 1, is_expanded |-> FALSE ] >> )
         \o render_children(path, dir, depth, expanded, f, Tail(entries))

\* the directories std::fs::read_dir was called on while the tree was built
reads(tree) == { tree[i].path : i \in { j \in 1..Len(tree) : tree[j].is_expanded } }

active_content_of_first_tab ==
    IF active_tab_index = None \/ open_tabs = << >> THEN Placeholder
    ELSE tab_contents[open_tabs[1]]

active_content ==
    IF active_tab_index = None THEN Placeholder
    ELSE LET idx == active_tab_index[1] IN
         IF idx >= Len(open_tabs) THEN Placeholder
         ELSE LET path == open_tabs[idx + 1] IN
              IF path \in DOMAIN tab_contents THEN tab_contents[path]
              ELSE Placeholder

render ==
    [ menu |-> open_menu,
      left |-> dropdown_left(char_widths, open_menu),
      tree |-> render_project_explorer(current_dir, current_dir, 0, expanded_dirs, fs),
      expanded_dirs |-> expanded_dirs,
      fs |-> fs,
      tabs |-> open_tabs ]

----------------------------------------------------------------------------
(* Elements of the painted frame and the listeners under the pointer *)

El(el, idx, path, menu) == [ el |-> el, idx |-> idx, path |-> path, menu |-> menu ]

NoHit == El("none", 0, "", OpenMenuNone)

Elements(fr) ==
    { El("menu_button", 0, "", m) : m \in MenuIds }
    \cup { El("dir_label", 0, r.path, OpenMenuNone) :
               r \in { x \in Elems(fr.tree) : x.kind = "dir" /\ x.depth < MaxDepth } }
    \cup { El("file_row", 0, r.path, OpenMenuNone) :
               r \in { x \in Elems(fr.tree) : x.kind = "file" /\ x.path \in Files } }
    \cup { El("resize_handle", 0, "", OpenMenuNone) }
    \cup { El("tab", i - 1, fr.tabs[i], OpenMenuNone) : i \in 1..Len(fr.tabs) }
    \cup { El("tab_close", i - 1, fr.tabs[i], OpenMenuNone) : i \in 1..Len(fr.tabs) }
    \cup IF fr.menu # OpenMenuNone
         THEN { El("dropdown_panel", 0, "", OpenMenuNone),
                El("background", 0, "", OpenMenuNone) }
         ELSE {}

Listener(h, t) == [ h |-> h, idx |-> t.idx, path |-> t.path, menu |-> t.menu ]

\* Bubble phase: the listeners of every element under the pointer run from
\* the one painted last to the one painted first.  The capture layer is
\* painted after the menu bar, the sidebar and the editor and spans the
\* window; the dropdown panel is painted after it and has no listener.
Listeners(fr, t) ==
    ( IF fr.menu # OpenMenuNone THEN << Listener("menu_close", t) >> ELSE << >> )
    \o
    CASE t.el = "menu_button"   -> << Listener("menu_toggle", t) >>
      [] t.el = "dir_label"     -> << Listener("toggle_expand", t) >>
      [] t.el = "file_row"      -> << Listener("open_or_focus", t) >>
      [] t.el = "resize_handle" -> << Listener("begin_drag", t) >>
      [] t.el = "tab"           -> << Listener("activate", t) >>
      [] t.el = "tab_close"     -> << Listener("close", t), Listener("activate", t) >>
      [] OTHER                  -> << >>

----------------------------------------------------------------------------
(* History of the listener that ran last *)

Ran(h, l, x, read, notified) ==
    [ h |-> h, notified |-> notified, idx |-> l.idx, path |-> l.path, menu |-> l.menu, x |-> x,
      read |-> read,
      open_menu |-> open_menu,
      expanded_dirs |-> expanded_dirs,
      open_tabs |-> open_tabs,
      active_tab_index |-> active_tab_index,
      tab_contents |-> tab_contents,
      sidebar_width |-> sidebar_width,
      is_dragging_sidebar |-> is_dragging_sidebar ]

\* no directory was collapsed and expanded again
NoCollapse == [ stage |-> "none", path |-> "", expanded_dirs |-> {}, tree |-> << >> ]

\* the history of collapsed directories is not recorded
NotRecorded == [ stage |-> "off", path |-> "", expanded_dirs |-> {}, tree |-> << >> ]

NoListener == [ h |-> "none", idx |-> 0, path |-> "", menu |-> OpenMenuNone ]

NoRan ==
    [ h |-> "none", notified |-> FALSE, idx |-> 0, path |-> "", menu |-> OpenMenuNone, x |-> 0,
      read |-> Err,
      open_menu |-> OpenMenuNone,
      expanded_dirs |-> {},
      open_tabs |-> << >>,
      active_tab_index |-> None,
      tab_contents |-> EmptyMap,
      sidebar_width |-> 0,
      is_dragging_sidebar |-> FALSE ]

----------------------------------------------------------------------------
(* AppView::new *)

InitDisk == [ p \in Files |-> IF p = "/a.txt" THEN Ok("X") ELSE Ok(Placeholder) ]

InitApp ==
    /\ open_menu = OpenMenuNone
    /\ expanded_dirs = {}
    /\ sidebar_width = 200
    /\ is_dragging_sidebar = FALSE
    /\ open_tabs = << >>
    /\ active_tab_index = None
    /\ tab_contents = EmptyMap
    /\ disk = InitDisk
    /\ frame = [ menu |-> OpenMenuNone,
                 left |-> dropdown_left(char_widths, OpenMenuNone),
                 tree |-> render_project_explorer(current_dir, current_dir, 0, {}, fs),
                 expanded_dirs |-> {},
                 fs |-> fs,
                 tabs |-> << >> ]
    /\ dirty = FALSE
    /\ pending = << >>
    /\ hit = NoHit
    /\ last = NoRan
    /\ opened = [ p \in Files |-> None ]
    /\ panicked = FALSE

Init ==
    /\ char_widths = InitGlyphTable
    /\ fs = PlainFs
    /\ collapsed_from = NotRecorded
    /\ InitApp

\* the history of collapsed directories is recorded
InitTree ==
    /\ char_widths = InitGlyphTable
    /\ fs = PlainFs
    /\ collapsed_from = NoCollapse
    /\ InitApp

\* any glyph table may have been loaded from charlen_arial_12px.json
InitAnchor ==
    /\ char_widths \in GlyphTables
    /\ fs = PlainFs
    /\ collapsed_from = NotRecorded
    /\ InitApp

----------------------------------------------------------------------------
(* Dispatch of a pointer-down event on an element of the painted frame *)

MouseDown(t) ==
    /\ ~panicked
    /\ pending = << >>
    /\ t \in Elements(frame)
    /\ Listeners(frame, t) # << >>
    /\ pending' = Listeners(frame, t)
    /\ hit' = t
    /\ UNCHANGED << appvars, disk, frame, dirty, last, opened, panicked, char_widths, fs, collapsed_from >>

Running(h) ==
    /\ ~panicked
    /\ pending # << >>
    /\ Head(pending).h = h

----------------------------------------------------------------------------
(* The listeners *)

cx_notify_lost(d) == d

\* cx.notify(): the view is redrawn before the next frame
cx_notify(d) == TRUE

\* menu button on_mouse_down
MenuToggle ==
    /\ Running("menu_toggle")
    /\ LET variant == Head(pending).menu IN
         open_menu' = toggle(open_menu, variant)
    /\ dirty' = cx_notify(dirty)
    /\ pending' = Tail(pending)
    /\ last' = Ran("menu_toggle", Head(pending), 0, Err, TRUE)
    /\ UNCHANGED << expanded_dirs, sidebar_width, is_dragging_sidebar, open_tabs,
                    active_tab_index, tab_contents, disk, frame, hit, opened, panicked, char_widths, fs, collapsed_from >>

\* capture layer on_mouse_down
MenuClose ==
    /\ Running("menu_close")
    /\ open_menu' = OpenMenuNone
    /\ dirty' = cx_notify(dirty)
    /\ pending' = Tail(pending)
    /\ last' = Ran("menu_close", Head(pending), 0, Err, TRUE)
    /\ UNCHANGED << expanded_dirs, sidebar_width, is_dragging_sidebar, open_tabs,
                    active_tab_index, tab_contents, disk, frame, hit, opened, panicked, char_widths, fs, collapsed_from >>

toggle_expand_insert_only(expanded, path) == expanded \cup { path }

toggle_expand_collapse_all(expanded, path) ==
    IF path \in expanded THEN {} ELSE expanded \cup { path }

\* the body of the directory label listener
toggle_expand(expanded, path) ==
    IF path \in expanded THEN expanded \ { path } ELSE expanded \cup { path }

\* directory label on_mouse_down
ToggleExpand ==
    /\ Running("toggle_expand")
    /\ LET path_clone == Head(pending).path IN
         /\ expanded_dirs' = toggle_expand(expanded_dirs, path_clone)
         /\ collapsed_from' =
              IF collapsed_from = NotRecorded THEN NotRecorded
              ELSE IF path_clone \in expanded_dirs
              THEN IF ~dirty /\ frame.fs = fs /\ frame.expanded_dirs = expanded_dirs
                   THEN [ stage |-> "collapsed", path |-> path_clone,
                          expanded_dirs |-> expanded_dirs, tree |-> frame.tree ]
                   ELSE NoCollapse
              ELSE IF collapsed_from.stage = "collapsed" /\ collapsed_from.path = path_clone
                   THEN [ collapsed_from EXCEPT !.stage = "expanded" ]
                   ELSE NoCollapse
    /\ dirty' = cx_notify(dirty)
    /\ pending' = Tail(pending)
    /\ last' = Ran("toggle_expand", Head(pending), 0, Err, TRUE)
    /\ UNCHANGED << open_menu, sidebar_width, is_dragging_sidebar, open_tabs,
                    active_tab_index, tab_contents, disk, frame, hit, opened, panicked, char_widths, fs >>

\* file entry on_mouse_down
OpenOrFocus ==
    /\ Running("open_or_focus")
    /\ LET entry_path_clone == Head(pending).path
           pos == position(open_tabs, entry_path_clone)
           content == read_to_string(entry_path_clone)
       IN  /\ IF pos # None
              THEN /\ active_tab_index' = Some(pos[1])
                   /\ UNCHANGED << open_tabs, tab_contents, opened >>
              ELSE IF content # Err
                   THEN /\ tab_contents' = map_insert(tab_contents, entry_path_clone, content[1])
                        /\ open_tabs' = Append(open_tabs, entry_path_clone)
                        /\ active_tab_index' = Some(Len(open_tabs') - 1)
                        /\ opened' = [ opened EXCEPT ![entry_path_clone] = disk[entry_path_clone] ]
                   ELSE UNCHANGED << open_tabs, tab_contents, active_tab_index, opened >>
           /\ last' = Ran("open_or_focus", Head(pending), 0,
                          IF pos # None THEN Err ELSE disk[entry_path_clone], TRUE)
    /\ pending' = << >>
    /\ dirty' = cx_notify(dirty)
    /\ UNCHANGED << open_menu, expanded_dirs, sidebar_width, is_dragging_sidebar,
                    disk, frame, hit, panicked, char_widths, fs, collapsed_from >>

\* tab on_mouse_down
Activate ==
    /\ Running("activate")
    /\ active_tab_index' = activate(active_tab_index, Head(pending).idx)
    /\ dirty' = cx_notify(dirty)
    /\ pending' = Tail(pending)
    /\ last' = Ran("activate", Head(pending), 0, Err, TRUE)
    /\ UNCHANGED << open_menu, expanded_dirs, sidebar_width, is_dragging_sidebar,
                    open_tabs, tab_contents, disk, frame, hit, opened, panicked, char_widths, fs, collapsed_from >>

CloseWithoutStopPropagation ==
    /\ Running("close")
    /\ Head(pending).idx < Len(open_tabs)
    /\ open_tabs' = vec_remove(open_tabs, Head(pending).idx)
    /\ tab_contents' = map_remove(tab_contents, Head(pending).path)
    /\ active_tab_index' = reclamp(active_tab_index, Len(open_tabs'))
    /\ opened' = [ opened EXCEPT ![open_tabs[Head(pending).idx + 1]] = None ]
    /\ pending' = Tail(pending)
    /\ dirty' = cx_notify(dirty)
    /\ last' = Ran("close", Head(pending), 0, Err, TRUE)
    /\ UNCHANGED << open_menu, expanded_dirs, sidebar_width, is_dragging_sidebar,
                    disk, frame, hit, panicked, char_widths, fs, collapsed_from >>

\* tab close glyph on_mouse_down
Close ==
    /\ Running("close")
    /\ LET idx == Head(pending).idx
           path_clone == Head(pending).path
       IN  IF idx >= Len(open_tabs)
           THEN /\ panicked' = TRUE
                /\ UNCHANGED << open_tabs, tab_contents, active_tab_index, pending, dirty, opened >>
           ELSE /\ open_tabs' = vec_remove(open_tabs, idx)
                /\ tab_contents' = map_remove(tab_contents, path_clone)
                /\ active_tab_index' = reclamp(active_tab_index, Len(open_tabs'))
                /\ opened' = [ opened EXCEPT ![open_tabs[idx + 1]] = None ]
                /\ pending' = << >>
                /\ dirty' = cx_notify(dirty)
                /\ UNCHANGED panicked
    /\ last' = Ran("close", Head(pending), 0, Err, Head(pending).idx < Len(open_tabs))
    /\ UNCHANGED << open_menu, expanded_dirs, sidebar_width, is_dragging_sidebar,
                    disk, frame, hit, char_widths, fs, collapsed_from >>

\* resize handle on_mouse_down
BeginDrag ==
    /\ Running("begin_drag")
    /\ is_dragging_sidebar' = TRUE
    /\ dirty' = cx_notify(dirty)
    /\ pending' = Tail(pending)
    /\ last' = Ran("begin_drag", Head(pending), 0, Err, TRUE)
    /\ UNCHANGED << open_menu, expanded_dirs, sidebar_width, open_tabs,
                    active_tab_index, tab_contents, disk, frame, hit, opened, panicked, char_widths, fs, collapsed_from >>

\* root on_mouse_move
UpdateDrag(x) ==
    /\ ~panicked
    /\ pending = << >>
    /\ IF is_dragging_sidebar
       THEN /\ sidebar_width' = clamp_width(x)
            /\ dirty' = cx_notify(dirty)
       ELSE UNCHANGED << sidebar_width, dirty >>
    /\ last' = Ran("update_drag", NoListener, x, Err, is_dragging_sidebar)
    /\ UNCHANGED << open_menu, expanded_dirs, is_dragging_sidebar, open_tabs,
                    active_tab_index, tab_contents, disk, frame, pending, hit, opened, panicked, char_widths, fs, collapsed_from >>

EndDragClosingMenu ==
    /\ ~panicked
    /\ pending = << >>
    /\ is_dragging_sidebar' = FALSE
    /\ open_menu' = OpenMenuNone
    /\ dirty' = cx_notify(dirty)
    /\ last' = Ran("end_drag", NoListener, 0, Err, TRUE)
    /\ UNCHANGED << expanded_dirs, sidebar_width, open_tabs,
                    active_tab_index, tab_contents, disk, frame, pending, hit, opened, panicked, char_widths, fs, collapsed_from >>

\* root on_mouse_up
EndDrag ==
    /\ ~panicked
    /\ pending = << >>
    /\ IF is_dragging_sidebar
       THEN /\ is_dragging_sidebar' = FALSE
            /\ dirty' = cx_notify(dirty)
       ELSE UNCHANGED << is_dragging_sidebar, dirty >>
    /\ last' = Ran("end_drag", NoListener, 0, Err, is_dragging_sidebar)
    /\ UNCHANGED << open_menu, expanded_dirs, sidebar_width, open_tabs,
                    active_tab_index, tab_contents, disk, frame, pending, hit, opened, panicked, char_widths, fs, collapsed_from >>

\* Render::render after cx.notify()
Render ==
    /\ ~panicked
    /\ pending = << >>
    /\ dirty
    /\ frame' = render
    /\ dirty' = FALSE
    /\ hit' = NoHit
    /\ last' = NoRan
    /\ UNCHANGED << appvars, disk, pending, opened, panicked, char_widths, fs, collapsed_from >>

\* another process writes, replaces or removes a file
FsWrite(p, r) ==
    /\ ~panicked
    /\ pending = << >>
    /\ ~dirty
    /\ disk[p] # r
    /\ disk' = [ disk EXCEPT ![p] = r ]
    /\ UNCHANGED << appvars, frame, dirty, pending, hit, last, opened, panicked, char_widths, fs, collapsed_from >>

----------------------------------------------------------------------------
(* Specifications *)

TabElements(fr) == { t \in Elements(fr) : t.el \in { "dir_label", "file_row", "tab", "tab_close" } }

\* The whole window on a filesystem that does not change; every pointer
\* event is dispatched on a frame painted from the current state.
Next ==
    \/ \E t \in Elements(frame) : ~dirty /\ MouseDown(t)
    \/ \E x \in PointerXs : ~dirty /\ UpdateDrag(x)
    \/ ~dirty /\ EndDrag
    \/ MenuToggle
    \/ MenuClose
    \/ ToggleExpand
    \/ OpenOrFocus
    \/ Activate
    \/ Close
    \/ BeginDrag
    \/ Render

Spec == Init /\ [][Next]_vars

\* The project explorer and the tab bar on a filesystem that changes.
NextTabs ==
    \/ \E t \in TabElements(frame) : ~dirty /\ MouseDown(t)
    \/ \E p \in Files, r \in ReadResults : FsWrite(p, r)
    \/ ToggleExpand
    \/ OpenOrFocus
    \/ Activate
    \/ Close
    \/ Render

SpecTabs == Init /\ [][NextTabs]_vars

MenuElements(fr) == { t \in Elements(fr) : t.el \in { "menu_button", "dropdown_panel", "background" } }

\* Pointer events that arrive after cx.notify() and before the window is
\* redrawn are dispatched on the listeners of the frame painted earlier:
\* here for the project explorer and the tab bar,
NextStaleTabs ==
    \/ \E t \in TabElements(frame) : MouseDown(t)
    \/ ToggleExpand
    \/ OpenOrFocus
    \/ Activate
    \/ Close
    \/ Render

SpecStaleTabs == Init /\ [][NextStaleTabs]_vars

\* and here for the menu bar and the dropdown overlay.
NextStaleMenu ==
    \/ \E t \in MenuElements(frame) : MouseDown(t)
    \/ MenuToggle
    \/ MenuClose
    \/ Render

SpecStaleMenu == Init /\ [][NextStaleMenu]_vars

\* The menu bar and the dropdown overlay under every glyph table.
NextAnchor ==
    \/ \E t \in MenuElements(frame) : ~dirty /\ MouseDown(t)
    \/ MenuToggle
    \/ MenuClose
    \/ Render

SpecAnchor == InitAnchor /\ [][NextAnchor]_vars

SidebarXs == { 0 - 5, 30, 49, 50, 51, 300, 599, 600, 601, 900 }

\* The resize handle and the root pointer listeners.
NextSidebar ==
    \/ MouseDown(El("resize_handle", 0, "", OpenMenuNone))
    \/ \E x \in SidebarXs : UpdateDrag(x)
    \/ EndDrag
    \/ BeginDrag
    \/ Render

SpecSidebar == Init /\ [][NextSidebar]_vars

----------------------------------------------------------------------------
(* Tab registry *)

TabPath(tabs, idx) == tabs[idx + 1]

NoDuplicateTabs == \A i, j \in 1..Len(open_tabs) : open_tabs[i] = open_tabs[j] => i = j

WasOpen(h) == last.h = h /\ last.path \in Elems(last.open_tabs)

WasNotOpen(h) == last.h = h /\ last.path \notin Elems(last.open_tabs)

C3_FocusExisting ==
    /\ WasOpen("open_or_focus") =>
         /\ open_tabs = last.open_tabs
         /\ tab_contents = last.tab_contents
         /\ active_tab_index # None
         /\ active_tab_index[1] < Len(open_tabs)
         /\ TabPath(open_tabs, active_tab_index[1]) = last.path
    /\ NoDuplicateTabs

C3_Witness ==
    /\ WasOpen("open_or_focus")
    /\ disk[last.path] # Ok(tab_contents[last.path])
    /\ last.active_tab_index # active_tab_index
    /\ Len(open_tabs) = 3

\* C4: open_or_focus on a path that is not open and is readable appends the
\* path after the existing tabs, caches the text that was read under that
\* path and makes the new last tab active.
C4_OpenNew ==
    (WasNotOpen("open_or_focus") /\ last.read # Err) =>
        /\ open_tabs = last.open_tabs \o << last.path >>
        /\ KeySet(tab_contents) = KeySet(last.tab_contents) \cup { last.path }
        /\ tab_contents[last.path] = last.read[1]
        /\ \A k \in KeySet(last.tab_contents) \ { last.path } :
             tab_contents[k] = last.tab_contents[k]
        /\ active_tab_index = Some(Len(open_tabs) - 1)

C4_Witness ==
    /\ WasNotOpen("open_or_focus")
    /\ last.read # Err
    /\ Len(last.open_tabs) = 2
    /\ last.active_tab_index = Some(0)
    /\ Len(open_tabs) = 3

\* C5: open_or_focus on a path that is not open and cannot be read changes
\* neither the tabs, nor the active index, nor the cache, and does not panic.
C5_OpenUnreadable ==
    (WasNotOpen("open_or_focus") /\ last.read = Err) =>
        /\ open_tabs = last.open_tabs
        /\ active_tab_index = last.active_tab_index
        /\ tab_contents = last.tab_contents
        /\ ~panicked
        /\ pending = << >>

C5_Witness ==
    /\ WasNotOpen("open_or_focus")
    /\ last.read = Err
    /\ Len(open_tabs) = 2
    /\ ~panicked

ShowsOpenSnapshot ==
    active_tab_index # None =>
        /\ active_tab_index[1] < Len(open_tabs)
        /\ TabPath(open_tabs, active_tab_index[1]) \in KeySet(tab_contents)
        /\ opened[TabPath(open_tabs, active_tab_index[1])] = Ok(active_content)

C8_ActivateRejectsOutOfRange ==
    (last.h = "activate" /\ last.idx >= Len(last.open_tabs)) =>
        active_tab_index = last.active_tab_index

----------------------------------------------------------------------------
(* Menu *)

\* C9: toggle(m) closes the menu when m is the open menu and otherwise opens
\* m, whether or not another menu was open; the open menu is always None or
\* one menu of the bar.
C9_Toggle ==
    /\ last.h = "menu_toggle" =>
         open_menu = IF last.open_menu = last.menu THEN OpenMenuNone ELSE last.menu
    /\ open_menu \in OpenMenu

C9_Witness ==
    /\ last.h = "menu_toggle"
    /\ last.open_menu = last.menu
    /\ open_menu = OpenMenuNone

C9_WitnessSwitch ==
    /\ last.h = "menu_toggle"
    /\ last.open_menu \notin { last.menu, OpenMenuNone }
    /\ open_menu = last.menu

\* C10 as stated: the capture layer's close() runs only for a pointer-down
\* outside the dropdown panel and outside the button of the open menu, and
\* leaves no menu open.
C10_CloseOnlyOutside ==
    last.h = "menu_close" =>
        /\ open_menu = OpenMenuNone
        /\ hit.el # "dropdown_panel"
        /\ ~(hit.el = "menu_button" /\ hit.menu = last.open_menu)

\* another process changes the directory tree or its permissions
FsChange(f) ==
    /\ ~panicked
    /\ pending = << >>
    /\ f # fs
    /\ fs' = f
    /\ collapsed_from' = IF collapsed_from = NotRecorded THEN NotRecorded ELSE NoCollapse
    /\ UNCHANGED << appvars, disk, frame, dirty, pending, hit, last, opened, panicked,
                    char_widths >>

\* The project explorer's directory labels on a changing directory tree.
NextTree ==
    \/ \E t \in { x \in Elements(frame) : x.el = "dir_label" } : ~dirty /\ MouseDown(t)
    \/ ToggleExpand
    \/ \E f \in FsStates : FsChange(f)
    \/ Render

SpecTree == InitTree /\ [][NextTree]_vars

----------------------------------------------------------------------------
(* Dropdown anchor *)

MenuIndex(menu) == CHOOSE i \in 1..Len(menu_bar_labels) : menu_bar_labels[i] = menu

GlyphOr7(c) == IF c \in DOMAIN char_widths THEN char_widths[c] ELSE 7

RECURSIVE LabelGlyphSum(_, _)
LabelGlyphSum(label, n) ==
    IF n = 0 THEN 0 ELSE LabelGlyphSum(label, n - 1) + GlyphOr7(chars(label)[n])

ButtonWidth(i) ==
    LabelGlyphSum(menu_bar_labels[i], Len(chars(menu_bar_labels[i]))) + 24 - 1

RECURSIVE WidthOfFirst(_)
WidthOfFirst(n) == IF n = 0 THEN 0 ELSE WidthOfFirst(n - 1) + ButtonWidth(n)

\* C11: while a menu is open the painted anchor is the sum, over the buttons
\* before it in bar order, of the label's glyph widths (7 for a glyph that is
\* not in the table) + 24 - 1; it is 0 for File.
C11_Anchor ==
    frame.menu # OpenMenuNone =>
        /\ frame.left = WidthOfFirst(MenuIndex(frame.menu) - 1)
        /\ frame.menu = "File" => frame.left = 0

C11_Witness ==
    /\ frame.menu = "Selection"
    /\ "F" \in DOMAIN char_widths
    /\ "i" \notin DOMAIN char_widths
    /\ frame.left = (char_widths["F"] + 7 + 7 + 7 + 23) + (7 + 7 + 7 + 7 + 23)

\* C12 as stated: while no menu is open the computed anchor is 0.
C12_AnchorZeroWhenClosed == frame.menu = OpenMenuNone => frame.left = 0

Monotone ==
    \A i, j \in 1..Len(menu_bar_labels) :
        i < j => dropdown_left(char_widths, menu_bar_labels[i])
                   <= dropdown_left(char_widths, menu_bar_labels[j])

\* C13 as stated: under any glyph table the anchor of a menu is at most the
\* anchor of every menu to its right.
C13_MonotoneAnyTable == Monotone

\* C13: under a glyph table that makes no button narrower than 0 the anchor
\* of a menu is at most the anchor of every menu to its right.
C13_MonotoneNonNegative ==
    (\A i \in 1..Len(menu_bar_labels) : ButtonWidth(i) >= 0) => Monotone

C13_Witness ==
    /\ \E c \in DOMAIN char_widths : char_widths[c] < 0
    /\ \A i \in 1..Len(menu_bar_labels) : ButtonWidth(i) >= 0
    /\ frame.menu = "Help"
    /\ frame.left > dropdown_left(char_widths, "Preferences")

----------------------------------------------------------------------------
(* Sidebar *)

\* C14: from width 200 and not dragging, after any begin_drag, pointer-move
\* and pointer-up events the sidebar width is between 50 and 600.
C14_WidthInRange == 50 <= sidebar_width /\ sidebar_width <= 600

C14_Witness ==
    /\ last.h = "update_drag"
    /\ last.is_dragging_sidebar
    /\ last.x > 600
    /\ sidebar_width = 600

\* C15: dragging starts with begin_drag and ends with the next pointer-up and
\* changes at no other time; a pointer-move at x sets the width to x clamped
\* into [50, 600] while dragging and leaves it unchanged otherwise.
C15_DragProtocol ==
    /\ [](last.h = "begin_drag" => is_dragging_sidebar)
    /\ [](last.h = "end_drag" => ~is_dragging_sidebar)
    /\ [][is_dragging_sidebar' # is_dragging_sidebar
            => last'.h \in { "begin_drag", "end_drag" }]_vars
    /\ [](last.h = "update_drag" =>
            sidebar_width =
              IF last.is_dragging_sidebar
              THEN IF last.x < 50 THEN 50 ELSE IF last.x > 600 THEN 600 ELSE last.x
              ELSE last.sidebar_width)
    /\ []((last.h = "update_drag" /\ last.is_dragging_sidebar /\ last.x = 30)
            => sidebar_width = 50)
    /\ []((last.h = "update_drag" /\ last.is_dragging_sidebar /\ last.x = 900)
            => sidebar_width = 600)
    /\ [][sidebar_width' # sidebar_width
            => last'.h = "update_drag" /\ is_dragging_sidebar]_vars

C15_Witness ==
    /\ last.h = "update_drag"
    /\ ~last.is_dragging_sidebar
    /\ last.x = 300
    /\ last.sidebar_width = 50
    /\ sidebar_width = 50

----------------------------------------------------------------------------
(* Project explorer *)

Paths(tree) == [ i \in 1..Len(tree) |-> tree[i].path ]

\* the rows painted as children of row i
Children(tree, i) ==
    { j \in (i + 1)..Len(tree) :
        /\ tree[j].depth = tree[i].depth + 1
        /\ \A k \in (i + 1)..j : tree[k].depth > tree[i].depth }

\* the rows of the directories that contain row i
Ancestors(tree, i) ==
    { k \in 1..(i - 1) :
        /\ tree[k].depth < tree[i].depth
        /\ \A m \in (k + 1)..i : tree[m].depth > tree[k].depth }

DirRows(tree) == { i \in 1..Len(tree) : tree[i].kind = "dir" }

\* C16: the directory label listener flips the membership of its path in the
\* expansion set and of no other path; with only the root expanded the root's
\* children d, a.txt, b.txt are shown and d is shown collapsed.
C16_ToggleExpand ==
    /\ last.h = "toggle_expand" =>
         /\ (last.path \in expanded_dirs) # (last.path \in last.expanded_dirs)
         /\ expanded_dirs \ { last.path } = last.expanded_dirs \ { last.path }
    /\ (frame.expanded_dirs = { "/" } /\ frame.fs = PlainFs) =>
         /\ Paths(frame.tree) = << "/", "/d", "/a.txt", "/b.txt" >>
         /\ ~frame.tree[2].is_expanded

C16_Witness ==
    /\ frame.expanded_dirs = { "/" }
    /\ frame.fs = PlainFs
    /\ last.h = "toggle_expand"
    /\ last.path = "/d"
    /\ expanded_dirs = { "/", "/d" }

\* C17: after a directory is collapsed and expanded again with no toggle and
\* no filesystem change in between, the expansion set is the one before the
\* collapse, and so is the tree once it is painted.
C17_CollapseExpand ==
    collapsed_from.stage = "expanded" =>
        /\ expanded_dirs = collapsed_from.expanded_dirs
        /\ ~dirty => frame.tree = collapsed_from.tree

C17_Witness ==
    /\ collapsed_from.stage = "expanded"
    /\ collapsed_from.path = "/"
    /\ "/d" \in expanded_dirs
    /\ ~dirty
    /\ Len(frame.tree) > 4

NameOf(tree, j) ==
    LET parent == CHOOSE i \in Ancestors(tree, j) : tree[i].depth + 1 = tree[j].depth
    IN  CHOOSE n \in Elems(Names) : join(tree[parent].path, n) = tree[j].path

\* C18 as stated: among the children painted for an expanded directory every
\* directory node precedes every file row, and within each group the names
\* ascend.
C18_ChildOrder ==
    \A p \in DirRows(frame.tree) :
        \A i, j \in Children(frame.tree, p) :
            i < j =>
                /\ frame.tree[i].kind = "file" => frame.tree[j].kind = "file"
                /\ frame.tree[i].kind = frame.tree[j].kind =>
                     NameRank(NameOf(frame.tree, i)) < NameRank(NameOf(frame.tree, j))

Listing(f, dir) == { n \in EntryNames(dir) : n = "up" => f.link }

\* C19: a directory that cannot be read is painted with no children while
\* the rest of the tree is painted; an entry whose iteration fails is left
\* out and the other entries are listed; the render pass changes no field
\* of the view and does not panic.
C19_ReadFailureContained ==
    /\ [](\A i \in DirRows(frame.tree) :
            LET row == frame.tree[i]
                shown == { frame.tree[j].path : j \in Children(frame.tree, i) }
            IN  /\ (row.is_expanded /\ row.dir \in frame.fs.unreadable) => shown = {}
                /\ (row.is_expanded /\ row.dir \notin frame.fs.unreadable) =>
                     shown = { join(row.path, n) :
                                 n \in { m \in Listing(frame.fs, row.dir) :
                                           join(row.dir, m) \notin frame.fs.bad_entries } })
    /\ [](~panicked)
    /\ [][frame' # frame => UNCHANGED appvars]_vars

C19_Witness ==
    /\ frame.fs.unreadable = { "/d" }
    /\ frame.fs.bad_entries = { "/b.txt" }
    /\ frame.expanded_dirs = { "/", "/d" }
    /\ Paths(frame.tree) = << "/", "/d", "/a.txt" >>

\* C20: a render pass lists a directory only if the directory and all the
\* directories above it up to the root are in the expansion set; a directory
\* outside the expansion set is painted collapsed and without children; with
\* the empty expansion set only the collapsed root is painted and no
\* directory is listed.
C20_LazyMaterialization ==
    /\ \A i \in DirRows(frame.tree) :
          /\ frame.tree[i].path \in reads(frame.tree) =>
               /\ frame.tree[i].path \in frame.expanded_dirs
               /\ \A k \in Ancestors(frame.tree, i) :
                     frame.tree[k].path \in frame.expanded_dirs
          /\ frame.tree[i].path \notin frame.expanded_dirs =>
               /\ ~frame.tree[i].is_expanded
               /\ Children(frame.tree, i) = {}
    /\ current_dir \notin frame.expanded_dirs =>
          /\ Paths(frame.tree) = << current_dir >>
          /\ reads(frame.tree) = {}

C20_Witness ==
    /\ frame.expanded_dirs = { "/d" }
    /\ Len(frame.tree) = 1
    /\ reads(frame.tree) = {}

----------------------------------------------------------------------------
(* Re-render signalling and independence of the components *)

\* the fields of the view as the listener that ran last found them
Before ==
    << last.open_menu, last.expanded_dirs, last.sidebar_width, last.is_dragging_sidebar,
       last.open_tabs, last.active_tab_index, last.tab_contents >>

Handlers ==
    { "menu_toggle", "menu_close", "toggle_expand", "open_or_focus", "activate",
      "close", "begin_drag", "update_drag", "end_drag" }

\* C21: a listener that changes a field of the view calls cx.notify() in the
\* same invocation, and the view is then due for a redraw; a pointer-move
\* or pointer-up while not dragging changes no field and does not call
\* cx.notify(); the redraw flag is raised by nothing but a notification.
C21_Notify ==
    /\ []((last.h \in Handlers /\ Before # appvars) => last.notified)
    /\ [](last.notified => dirty)
    /\ []((last.h \in { "update_drag", "end_drag" } /\ ~last.is_dragging_sidebar)
            => (Before = appvars /\ ~last.notified))
    /\ [][dirty' # dirty => dirty' = last'.notified]_vars
    /\ [][appvars' # appvars => last'.notified]_vars

C21_Witness ==
    /\ last.h = "end_drag"
    /\ last.is_dragging_sidebar
    /\ ~is_dragging_sidebar
    /\ last.notified
    /\ dirty

C21_WitnessNoOp ==
    /\ last.h = "update_drag"
    /\ ~last.is_dragging_sidebar
    /\ ~last.notified
    /\ ~dirty

\* C22: the resize handle, pointer-move and pointer-up listeners change only
\* sidebar_width and is_dragging_sidebar; the menu, directory and tab
\* listeners leave those two unchanged; the menu listeners leave the
\* expansion set and the tabs unchanged; the directory label listener leaves
\* the menu and the tabs unchanged.
C22_Independence ==
    LET menu_same == open_menu = last.open_menu
        tree_same == expanded_dirs = last.expanded_dirs
        tabs_same == /\ open_tabs = last.open_tabs
                     /\ active_tab_index = last.active_tab_index
                     /\ tab_contents = last.tab_contents
        sidebar_same == /\ sidebar_width = last.sidebar_width
                        /\ is_dragging_sidebar = last.is_dragging_sidebar
    IN  /\ last.h \in { "begin_drag", "update_drag", "end_drag" }
            => (menu_same /\ tree_same /\ tabs_same)
        /\ last.h \in { "menu_toggle", "menu_close", "toggle_expand", "open_or_focus",
                        "activate", "close" }
            => sidebar_same
        /\ last.h \in { "menu_toggle", "menu_close" } => (tree_same /\ tabs_same)
        /\ last.h = "toggle_expand" => (menu_same /\ tabs_same)

C22_Witness ==
    /\ last.h = "end_drag"
    /\ last.is_dragging_sidebar
    /\ ~is_dragging_sidebar
    /\ sidebar_width # 200
    /\ open_menu # OpenMenuNone
    /\ expanded_dirs # {}
    /\ open_tabs # << >>

----------------------------------------------------------------------------
(* The close glyph *)

\* C23 as stated: a pointer-down on a close glyph never sets the active
\* index to the index of the tab it removed.
C23_NeverIndexOfRemoved ==
    (last.h = "close" /\ ~panicked /\ active_tab_index # last.active_tab_index)
        => active_tab_index # Some(last.idx)

\* C23: a pointer-down on a close glyph does not run the tab's activate
\* listener: the close listener stops the propagation; the active index is
\* left as it was if it is still in range, and is otherwise the last index,
\* or None when no tab is left.
C23_CloseStopsPropagation ==
    /\ hit.el = "tab_close" => last.h # "activate"
    /\ (last.h = "close" /\ ~panicked) =>
         /\ pending = << >>
         /\ active_tab_index =
              IF last.active_tab_index = None THEN None
              ELSE IF last.active_tab_index[1] < Len(open_tabs) THEN last.active_tab_index
              ELSE IF open_tabs = << >> THEN None
              ELSE Some(Len(open_tabs) - 1)

C23_Witness ==
    /\ hit.el = "tab_close"
    /\ last.h = "close"
    /\ Len(last.open_tabs) = 3
    /\ last.idx = 1
    /\ last.active_tab_index = Some(2)
    /\ active_tab_index = Some(1)
    /\ pending = << >>

\* C24 as stated: when a tab other than the active one is closed, the path
\* at the active index afterwards is the path that was active before.
C24_CloseKeepsActiveFile ==
    ( /\ last.h = "close"
      /\ ~panicked
      /\ last.idx < Len(last.open_tabs)
      /\ last.active_tab_index # None
      /\ last.active_tab_index[1] < Len(last.open_tabs)
      /\ last.active_tab_index[1] # last.idx )
    => /\ active_tab_index # None
       /\ active_tab_index[1] < Len(open_tabs)
       /\ open_tabs[active_tab_index[1] + 1] = last.open_tabs[last.active_tab_index[1] + 1]

----------------------------------------------------------------------------
(* Termination of the tree rendering *)

\* C25: the render pass paints children only below paths of the expansion
\* set, so no row lies deeper than the number of expanded paths (the
\* recursion is at most one call deeper) and the tree is finite, also when
\* /d/up links back to the working directory.
C25_RenderTerminates ==
    /\ \A i \in 1..Len(frame.tree) :
          /\ frame.tree[i].depth <= Cardinality(frame.expanded_dirs)
          /\ Children(frame.tree, i) # {} => frame.tree[i].path \in frame.expanded_dirs
          /\ \A k \in Ancestors(frame.tree, i) : frame.tree[k].path # frame.tree[i].path
    /\ Len(frame.tree) <= 1 + 3 * Cardinality(frame.expanded_dirs)

C25_Witness ==
    /\ frame.fs.link
    /\ frame.fs.unreadable = {}
    /\ { "/", "/d", "/d/up" } \subseteq frame.expanded_dirs
    /\ \E i \in 1..Len(frame.tree) :
          /\ frame.tree[i].path = "/d/up/d"
          /\ frame.tree[i].dir = "/d"
          /\ frame.tree[i].depth = 3

====
